---- MODULE Spec2Model ----
(***************************************************************************)
(* Model of the portfolio search engine of optifolio                       *)
(* (src/procedural/src/simulate.py, src/procedural/src/utils.py) and of    *)
(* its data retrieval (src/procedural/src/data_loader.py,                  *)
(* src/functional/utils/data_loading.py).                                  *)
(*                                                                         *)
(* Numbers.  The program computes in IEEE doubles; the model computes in   *)
(* exact rationals <<num, den>> (den >= 0, lowest terms), so every         *)
(* statement below is about the arithmetic the code writes down, not about *)
(* rounding.  -infinity is the pair <<-1, 0>>.  A value that the code      *)
(* obtains through a square root (Sharpe ratio, volatility) is kept as its *)
(* signed square, which orders exactly like the value itself.              *)
(***************************************************************************)
EXTENDS Integers, Sequences, FiniteSets, TLC

VARIABLES
    tickers,            \* self.tickers: the universe, a sequence of names
    select_k_tickers,   \* self.select_k_tickers
    num_simulations,    \* self.num_simulations
    num_cores,          \* self.num_cores
    max_weight,         \* self.max_weight, a rational
    risk_free_rate,     \* self.risk_free_rate, a rational
    returns,            \* self.returns: ticker -> sequence of daily returns
    pc,                 \* position of the operation under study
    error,              \* the exception that left the operation, or "none"
    indices,            \* itertools.combinations: its index list
    combinations,       \* the subsets yielded so far / the list of run()
    task,               \* run(): per subset "pending" | "running" | "done"
    results,            \* run(): per subset <<>> or <<result>>
    df_results,         \* run(): the table returned
    combo,              \* _simulate_one: the subset under evaluation
    trial,              \* _simulate_one: iterations of the loop completed
    sampled,            \* the vector returned by _sample_weights
    weights,            \* the vector returned by _apply_max_weight_constraint
    best,               \* _simulate_one: best_sharpe, best_weights, ...
    history,            \* history variable: every trial evaluated so far
    overtaken,          \* history variable: a subset completed before an earlier one
    previous,           \* the table of an earlier run() of the same simulator
    portfolio_returns,  \* the series returned by compute_portfolio_returns
    sharpe,             \* the value returned by compute_portfolio_sharpe_ratio
    operation,          \* data retrieval: "fetch_data" | "fetch_dow30"
    batch_size,         \* data retrieval: tickers per batch
    batch_start,        \* data retrieval: offset i of the batch in hand
    attempt,            \* _download_batch: rate-limited attempts so far
    all_data,           \* data retrieval: the batches downloaded so far
    prices_df,          \* data retrieval: the columns of the table built
    max_retries,        \* _download_batch: its parameter max_retries
    calls,              \* history variable: calls of yf.download made
    waits               \* history variable: the durations passed to time.sleep

vars == <<tickers, select_k_tickers, num_simulations, num_cores, max_weight,
          risk_free_rate, returns, pc, error, indices, combinations, task,
          results, df_results, combo, trial, sampled, weights, best, history,
          overtaken, previous, portfolio_returns, sharpe, operation,
          batch_size, batch_start, attempt, all_data, prices_df,
          max_retries, calls, waits>>

metrics == <<portfolio_returns, sharpe>>

download == <<max_retries, calls, waits>>

loader == <<operation, batch_size, batch_start, attempt, all_data, prices_df,
            max_retries, calls, waits>>

engine == <<indices, combinations, task, results, df_results, combo, trial,
            sampled, weights, best, history, overtaken, previous>>

config == <<tickers, select_k_tickers, num_simulations, num_cores, max_weight,
            risk_free_rate, returns>>

\* no metric computed, no download under way
NoMetrics == portfolio_returns = <<>> /\ sharpe = <<>>

NoLoader == /\ operation = "none" /\ batch_size = 0 /\ batch_start = 0
            /\ attempt = 0 /\ all_data = <<>> /\ prices_df = <<>>
            /\ max_retries = 0 /\ calls = 0 /\ waits = <<>>

(***************************************************************************)
(* Bounds of the model.                                                    *)
(***************************************************************************)
\* SpecProjector: weights are drawn on the grid j / ProjGrid
ProjGrid == 10
\* SpecProjector: a weight vector has at most ProjAssets entries
ProjAssets == 3
\* max_weight ranges over j / CapGrid, 1 <= j <= CapGrid + 1
CapGrid == 10
\* SpecCombinations: the universe has at most MaxUniverse tickers
MaxUniverse == 5
\* SpecTrial: a subset has at most MaxSubset tickers
MaxSubset == 2
\* SpecTrial: num_simulations is at most MaxSimulations
MaxSimulations == 2
\* SpecTrial: weights are drawn on the grid j / TrialGrid
TrialGrid == 2
\* Spec: the universe has at most MaxTickers tickers
MaxTickers == 2
\* Spec: num_simulations is at most RunSimulations
RunSimulations == 1
\* Spec: weights are drawn on the grid j / RunGrid
RunGrid == 1
\* Spec: num_cores is at most MaxCores
MaxCores == 2
\* SpecReturns: a frame has at most MetricAssets columns
MetricAssets == 2
\* SpecReturns: weights are multiples of 1 / MetricGrid up to 1 + 1 / MetricGrid
MetricGrid == 2
\* SpecSharpe: a series has at most MaxDates entries
MaxDates == 3
\* SpecSharpe: a daily return is at most MaxReturn percent
MaxReturn == 2
\* SpecLoader: batch_size is at most MaxBatch
MaxBatch == 2

(***************************************************************************)
(* Exact rational arithmetic.                                              *)
(***************************************************************************)
Abs(x) == IF x < 0 THEN -x ELSE x

RECURSIVE GCD(_, _)
GCD(a, b) == IF b = 0 THEN a ELSE GCD(b, a % b)

\* n / d in lowest terms; as in IEEE arithmetic x / 0 is an infinity
\* (<<1, 0>>, <<-1, 0>>) and 0 / 0 is NaN (<<0, 0>>)
Rat(n, d) ==
    LET s == IF d < 0 THEN -1 ELSE 1
        g == GCD(Abs(n), Abs(d))
    IN  IF g = 0 THEN <<0, 0>> ELSE <<(s * n) \div g, (s * d) \div g>>

Zero == <<0, 1>>
One == <<1, 1>>
NegInf == <<-1, 0>>

RAdd(a, b) == Rat(a[1] * b[2] + b[1] * a[2], a[2] * b[2])
RSub(a, b) == Rat(a[1] * b[2] - b[1] * a[2], a[2] * b[2])
RMul(a, b) == Rat(a[1] * b[1], a[2] * b[2])
RDiv(a, b) == Rat(a[1] * b[2], a[2] * b[1])
RLt(a, b) == a[1] * b[2] < b[1] * a[2]
RLe(a, b) == a[1] * b[2] <= b[1] * a[2]
RAbs(a) == <<Abs(a[1]), a[2]>>

RECURSIVE RSum(_)
RSum(s) == IF s = <<>> THEN Zero ELSE RAdd(s[1], RSum(Tail(s)))

\* the entries of s selected by the boolean mask m (numpy: s[m])
Masked(s, m) == SelectSeq([i \in DOMAIN s |-> <<m[i], s[i]>>], LAMBDA p : p[1])

Range(s) == {s[i] : i \in DOMAIN s}

CountTrue(m) == Cardinality({i \in DOMAIN m : m[i]})

(***************************************************************************)
(* The random source.  np.random.dirichlet(np.ones(n)) returns a point of  *)
(* the simplex; the model draws it from the grid of resolution 1/grid,     *)
(* boundary included.                                                      *)
(***************************************************************************)
RECURSIVE Compositions(_, _)
Compositions(n, total) ==
    IF n = 0 THEN (IF total = 0 THEN {<<>>} ELSE {})
    ELSE UNION {{<<j>> \o c : c \in Compositions(n - 1, total - j)} : j \in 0..total}

Dirichlet(n_assets, grid) ==
    IF n_assets = 0 THEN {<<>>} ELSE
    {[i \in 1..n_assets |-> Rat(c[i], grid)] : c \in Compositions(n_assets, grid)}

(***************************************************************************)
(* PortfolioSimulator._sample_weights, the part after the draw.            *)
(***************************************************************************)
SampleWeights(draw) ==
    LET total == RSum(draw)
    IN  [i \in DOMAIN draw |-> RDiv(draw[i], total)]

(***************************************************************************)
(* PortfolioSimulator._apply_max_weight_constraint.                        *)
(***************************************************************************)
ExcessMaskFlipped(w, c) == [i \in DOMAIN w |-> RLt(w[i], c)]

\* excess_mask = adjusted_weights > self.max_weight
ExcessMask(w, c) == [i \in DOMAIN w |-> RLt(c, w[i])]

NoNormalize(w) == w

\* adjusted_weights / np.sum(adjusted_weights)
Normalize(w) ==
    LET total == RSum(w)
    IN  [i \in DOMAIN w |-> RDiv(w[i], total)]

\* lines 98-102: every weight is over the cap
AllExcessClamped(w, c) == [i \in DOMAIN w |-> c]

AllExcess(w, c) == Normalize([i \in DOMAIN w |-> c])

ApplyMaxWeightConstraint(w, c) ==
    IF RLe(One, c) THEN w
    ELSE
      LET excess_mask == ExcessMask(w, c)
          excess_weights == [i \in 1..Len(Masked(w, excess_mask)) |->
                                Masked(w, excess_mask)[i][2]]
          any_excess == \E i \in DOMAIN w : excess_mask[i]
          total_excess == RSub(RSum(excess_weights),
                               RMul(c, Rat(CountTrue(excess_mask), 1)))
          capped == [i \in DOMAIN w |-> IF excess_mask[i] THEN c ELSE w[i]]
          below_max_mask == [i \in DOMAIN w |-> ~excess_mask[i]]
          any_below == \E i \in DOMAIN w : below_max_mask[i]
          sum_below_max == RSum([i \in DOMAIN w |->
                                   IF below_max_mask[i] THEN capped[i] ELSE Zero])
          redistributed ==
              IF RLt(Zero, sum_below_max)
              THEN LET redistribution_factor == RDiv(total_excess, sum_below_max)
                   IN  [i \in DOMAIN w |->
                          IF below_max_mask[i]
                          THEN RAdd(capped[i], RMul(capped[i], redistribution_factor))
                          ELSE capped[i]]
              ELSE capped
      IN  IF ~any_excess THEN w
          ELSE IF ~any_below THEN AllExcess(w, c)
          ELSE Normalize(redistributed)

(***************************************************************************)
(* PortfolioMetrics.compute_portfolio_returns: the check of the weights.   *)
(* np.isclose(s, 1.0) is |s - 1| <= atol + rtol * 1 with numpy's defaults  *)
(* atol = 1e-8, rtol = 1e-5, that is |s - 1| <= 1001 / 10^8.               *)
(***************************************************************************)
IsCloseLoose(s) ==
    LET d == RAbs(RSub(s, One))
    IN  d[2] # 0 /\ d[1] <= d[2] \div 10000

IsCloseToOne(s) ==
    LET d == RAbs(RSub(s, One))
    IN  d[2] # 0 /\ d[1] <= (1001 * d[2]) \div 100000000

WeightsSumToOne(w) == IsCloseToOne(RSum(w))

(***************************************************************************)
(* PortfolioSimulator._generate_combinations: itertools.combinations over  *)
(* self.tickers.  The iterator keeps a list of r positions of the pool     *)
(* (here 1-based); each step moves the rightmost position that is not yet  *)
(* at its maximum and resets the positions after it.                       *)
(***************************************************************************)
\* the tickers of the demonstration run
AllTickers == <<"MSFT", "AAPL", "NVDA", "AMZN", "WMT", "JPM", "V">>

Universe(n) == SubSeq(AllTickers, 1, n)

TupleOfReversed(pool, ind) == [j \in DOMAIN ind |-> pool[ind[Len(ind) + 1 - j]]]

\* tuple(pool[i] for i in indices)
TupleOf(pool, ind) == [j \in DOMAIN ind |-> pool[ind[j]]]

FirstIndices(r) == [j \in 1..r |-> j]

Movable(ind, n, r) == {i \in 1..r : ind[i] # i + n - r}

SetMax(S) == CHOOSE x \in S : \A y \in S : y <= x

AdvanceNoReset(ind, n, r) ==
    LET i == SetMax(Movable(ind, n, r))
    IN  [j \in 1..r |-> IF j = i THEN ind[j] + 1 ELSE ind[j]]

Advance(ind, n, r) ==
    LET i == SetMax(Movable(ind, n, r))
    IN  [j \in 1..r |-> IF j < i THEN ind[j] ELSE ind[i] + 1 + (j - i)]

RECURSIVE CombinationsFrom(_, _, _)
CombinationsFrom(pool, r, ind) ==
    <<TupleOf(pool, ind)>> \o
        (IF Movable(ind, Len(pool), r) = {} THEN <<>>
         ELSE CombinationsFrom(pool, r, Advance(ind, Len(pool), r)))

\* list(itertools.combinations(pool, r)) for r >= 0
Combinations(pool, r) ==
    IF r > Len(pool) THEN <<>> ELSE CombinationsFrom(pool, r, FirstIndices(r))

(***************************************************************************)
(* SpecCombinations: the iterator of _generate_combinations, consumed one  *)
(* subset at a time.                                                       *)
(***************************************************************************)
CombIdle == /\ num_simulations = 0 /\ num_cores = 1 /\ max_weight = One
            /\ risk_free_rate = Zero /\ returns = <<>> /\ task = <<>>
            /\ results = <<>> /\ df_results = <<>> /\ combo = <<>>
            /\ trial = 0 /\ sampled = <<>> /\ weights = <<>> /\ best = <<>>
            /\ history = <<>> /\ overtaken = FALSE
            /\ previous = <<>> /\ NoMetrics /\ NoLoader

CombInit ==
    /\ CombIdle
    /\ \E n \in 0..MaxUniverse :
          /\ tickers = Universe(n)
          /\ select_k_tickers \in (-1)..(n + 1)
    /\ pc = "create"
    /\ error = "none"
    /\ indices = <<>>
    /\ combinations = <<>>

\* itertools.combinations(self.tickers, self.select_k_tickers)
CombCreate ==
    /\ pc = "create"
    /\ IF select_k_tickers < 0
       THEN pc' = "failed" /\ error' = "ValueError"
       ELSE pc' = "first" /\ error' = error
    /\ UNCHANGED <<previous, metrics, loader>>
    /\ UNCHANGED <<config, indices, combinations, task, results, df_results,
                   combo, trial, sampled, weights, best, history, overtaken>>

\* the first next() of the iterator
CombFirst ==
    /\ pc = "first"
    /\ IF select_k_tickers > Len(tickers)
       THEN pc' = "done" /\ UNCHANGED <<indices, combinations>>
       ELSE /\ indices' = FirstIndices(select_k_tickers)
            /\ combinations' = <<TupleOf(tickers, indices')>>
            /\ pc' = "next"
    /\ UNCHANGED <<previous, metrics, loader>>
    /\ UNCHANGED <<config, error, task, results, df_results,
                   combo, trial, sampled, weights, best, history, overtaken>>

\* every later next() of the iterator
CombStep ==
    /\ pc = "next"
    /\ IF Movable(indices, Len(tickers), select_k_tickers) = {}
       THEN pc' = "done" /\ UNCHANGED <<indices, combinations>>
       ELSE /\ indices' = Advance(indices, Len(tickers), select_k_tickers)
            /\ combinations' = Append(combinations, TupleOf(tickers, indices'))
            /\ pc' = "next"
    /\ UNCHANGED <<previous, metrics, loader>>
    /\ UNCHANGED <<config, error, task, results, df_results,
                   combo, trial, sampled, weights, best, history, overtaken>>

CombNext == CombCreate \/ CombFirst \/ CombStep

SpecCombinations == CombInit /\ [][CombNext]_vars

(***************************************************************************)
(* PortfolioMetrics (utils.py).  Daily returns are in percent.             *)
(***************************************************************************)
TradingDays == 252

\* self.returns.select(list(combo))
SelectColumns(rets, cmb) == [j \in DOMAIN cmb |-> rets[cmb[j]]]

NumDates(selected) == IF selected = <<>> THEN 0 ELSE Len(selected[1])

\* returns_array.dot(weights_array)
PortfolioReturnsUnweighted(w, selected) ==
    [t \in 1..NumDates(selected) |->
        RSum([j \in DOMAIN selected |-> selected[j][t]])]

PortfolioReturns(w, selected) ==
    [t \in 1..NumDates(selected) |->
        RSum([j \in DOMAIN selected |-> RMul(selected[j][t], w[j])])]

Mean(series) == RDiv(RSum(series), Rat(Len(series), 1))

\* np.std(series) squared
Variance(series) ==
    LET m == Mean(series)
    IN  Mean([t \in DOMAIN series |-> RMul(RSub(series[t], m), RSub(series[t], m))])

AnnualizedReturn(series) == RMul(Mean(series), Rat(TradingDays, 1))

\* (daily_volatility * sqrt(trading_days)) squared
AnnualizedVolatility(series) == RMul(Variance(series), Rat(TradingDays, 1))

\* the signed square of x / sqrt(v), v > 0
SignedSquareRatio(x, v) ==
    LET q == RDiv(RMul(x, x), v)
    IN  IF x[1] < 0 THEN <<-q[1], q[2]>> ELSE q

\* compute_portfolio_sharpe_ratio, as its signed square
SharpeRatio(series, rf) ==
    IF Variance(series) = Zero THEN Zero
    ELSE SignedSquareRatio(RSub(Mean(series), rf), Variance(series))

(***************************************************************************)
(* PortfolioSimulator._simulate_one.                                       *)
(***************************************************************************)
\* lines 129-132; weights is <<>> for None and <<w>> for a vector w;
\* trial is the iteration that set the record (0: none), a history field
InitialBest ==
    [sharpe_ratio |-> NegInf, weights |-> <<>>, annualized_return |-> Zero,
     annualized_volatility |-> Zero, trial |-> 0]

\* lines 136-151: one trial from one draw of the random source
Trial(cmb, draw, c, rf, rets) ==
    LET w == ApplyMaxWeightConstraint(SampleWeights(draw), c)
        ok == WeightsSumToOne(w)
        series == PortfolioReturns(w, SelectColumns(rets, cmb))
    IN  IF ok
        THEN [ok |-> TRUE, weights |-> w,
              sharpe_ratio |-> SharpeRatio(series, rf),
              annualized_return |-> AnnualizedReturn(series),
              annualized_volatility |-> AnnualizedVolatility(series)]
        ELSE [ok |-> FALSE, weights |-> w, sharpe_ratio |-> Zero,
              annualized_return |-> Zero, annualized_volatility |-> Zero]

IsBetterOrEqual(sharpe_ratio, best_sharpe) == RLe(best_sharpe, sharpe_ratio)

\* line 154: sharpe_ratio > best_sharpe
IsBetter(sharpe_ratio, best_sharpe) == RLt(best_sharpe, sharpe_ratio)

UpdateBestStale(b, t, idx) ==
    IF IsBetter(t.sharpe_ratio, b.sharpe_ratio)
    THEN [sharpe_ratio |-> t.sharpe_ratio, weights |-> <<t.weights>>,
          annualized_return |-> b.annualized_return,
          annualized_volatility |-> t.annualized_volatility, trial |-> idx]
    ELSE b

\* lines 154-158, for the trial t of iteration idx
UpdateBestKeepAll(b, t, idx) ==
    IF IsBetter(t.sharpe_ratio, b.sharpe_ratio)
    THEN [sharpe_ratio |-> t.sharpe_ratio, weights |-> b.weights \o <<t.weights>>,
          annualized_return |-> t.annualized_return,
          annualized_volatility |-> t.annualized_volatility, trial |-> idx]
    ELSE b

UpdateBest(b, t, idx) ==
    IF IsBetter(t.sharpe_ratio, b.sharpe_ratio)
    THEN [sharpe_ratio |-> t.sharpe_ratio, weights |-> <<t.weights>>,
          annualized_return |-> t.annualized_return,
          annualized_volatility |-> t.annualized_volatility, trial |-> idx]
    ELSE b

\* lines 161-167: the result dictionary
ResultOf(cmb, b) ==
    [tickers |-> cmb, weights |-> b.weights[1], sharpe_ratio |-> b.sharpe_ratio,
     annualized_return |-> b.annualized_return,
     annualized_volatility |-> b.annualized_volatility]

NoResult == [tickers |-> <<>>, weights |-> <<>>, sharpe_ratio |-> Zero,
             annualized_return |-> Zero, annualized_volatility |-> Zero]

\* the loop of lines 134-158 over the draws of the random source, then the
\* result; best_weights.tolist() raises AttributeError when best_weights is
\* None, compute_portfolio_returns raises ValueError
RECURSIVE SimulateFrom(_, _, _, _, _, _, _)
SimulateFrom(cmb, draws, idx, b, c, rf, rets) ==
    IF idx > Len(draws)
    THEN IF b.weights = <<>>
         THEN [error |-> "AttributeError", result |-> NoResult]
         ELSE [error |-> "none", result |-> ResultOf(cmb, b)]
    ELSE LET t == Trial(cmb, draws[idx], c, rf, rets)
         IN  IF ~t.ok THEN [error |-> "ValueError", result |-> NoResult]
             ELSE SimulateFrom(cmb, draws, idx + 1, UpdateBest(b, t, idx), c, rf, rets)

SimulateOne(cmb, draws, c, rf, rets) ==
    SimulateFrom(cmb, draws, 1, InitialBest, c, rf, rets)

\* range(self.num_simulations)
Iterations(n) == IF n < 0 THEN 0 ELSE n

\* the returns of the model's runs, in percent, one column per ticker
Percent(col) == [t \in DOMAIN col |-> Rat(col[t], 1)]

ReturnsTable ==
    [t \in Range(AllTickers) |-> Percent(
        CASE t = "MSFT" -> <<1, 2, 0>>
          [] t = "AAPL" -> <<2, 1, 3>>
          [] t = "NVDA" -> <<2, 4, 0>>
          [] t = "AMZN" -> <<1, 1, 1>>
          [] t = "WMT" -> <<0, 3, 1>>
          [] t = "JPM" -> <<3, 0, 2>>
          [] OTHER -> <<1, 0, 1>>)]

\* float('nan'): a missing value of a pandas column
NaN == <<0, 0>>

\* the same returns with no value for AAPL on the first date
MissingTable == [ReturnsTable EXCEPT !["AAPL"][1] = NaN]

\* the prices of the model's runs, one column per ticker
PricesTable ==
    [t \in Range(AllTickers) |->
        [d \in DOMAIN ReturnsTable[t] |-> RAdd(ReturnsTable[t][d], One)]]

\* prices_df.pct_change(): price / previous price - 1, and no value on
\* the first date
PctChange(col) ==
    [d \in DOMAIN col |->
        IF d = 1 THEN NaN ELSE RSub(RDiv(col[d], col[d - 1]), One)]

\* compute_daily_returns: the table main() hands to PortfolioSimulator
DailyReturns == [t \in DOMAIN PricesTable |-> PctChange(PricesTable[t])]

(***************************************************************************)
(* SpecTrial: _simulate_one on one subset, one step per stage of the loop. *)
(***************************************************************************)
TrialCaps == {Rat(1, 2), One}

TrialRates == {Zero, One}

\* The sampler, the projector, and compute_portfolio_returns with the
\* three metrics, tabulated over the vectors, caps, frames and rates of this
\* specification: a step looks its values up.
TrialSamples ==
    [k \in 0..MaxSubset |-> {SampleWeights(d) : d \in Dirichlet(k, TrialGrid)}]

TrialVectors == UNION {TrialSamples[k] : k \in 0..MaxSubset}

TrialProjection ==
    [w \in TrialVectors, c \in TrialCaps |-> ApplyMaxWeightConstraint(w, c)]

TrialTables == {ReturnsTable, DailyReturns}

TrialFrames ==
    {SelectColumns(r, c) :
        r \in TrialTables,
        c \in UNION {Range(Combinations(Universe(MaxSubset + 1), k)) :
                        k \in 0..MaxSubset}}

TrialMetrics ==
    [f \in TrialFrames,
     w \in {TrialProjection[v, c] : v \in TrialVectors, c \in TrialCaps},
     rf \in TrialRates |->
        IF Len(f) # Len(w) THEN <<>>
        ELSE IF ~WeightsSumToOne(w) THEN [ok |-> FALSE]
        ELSE LET series == PortfolioReturns(w, f)
             IN  [ok |-> TRUE,
                  sharpe_ratio |-> SharpeRatio(series, rf),
                  annualized_return |-> AnnualizedReturn(series),
                  annualized_volatility |-> AnnualizedVolatility(series)]]

TrialInit ==
    /\ tickers = Universe(MaxSubset + 1)
    /\ select_k_tickers \in 0..MaxSubset
    /\ num_simulations \in (-1)..MaxSimulations
    /\ num_cores = 1
    /\ max_weight \in TrialCaps
    /\ risk_free_rate \in TrialRates
    /\ returns \in TrialTables
    /\ pc = "select"
    /\ error = "none"
    /\ indices = <<>> /\ combinations = <<>> /\ task = <<>>
    /\ results = <<>> /\ df_results = <<>> /\ overtaken = FALSE
    /\ combo \in Range(Combinations(tickers, select_k_tickers))
    /\ trial = 0
    /\ sampled = <<>>
    /\ weights = <<>>
    /\ best = InitialBest
    /\ history = <<>>
    /\ previous = <<>> /\ NoMetrics /\ NoLoader

\* line 126: select() builds a new frame of the subset's columns and
\* leaves self.returns as it is
ReturnsNarrowed(rets, cmb) == [t \in Range(cmb) |-> rets[t]]

ReturnsAfterSelect(rets, cmb) == rets

TrialSelect ==
    /\ pc = "select"
    /\ returns' = ReturnsAfterSelect(returns, combo)
    /\ pc' = "loop"
    /\ UNCHANGED <<tickers, select_k_tickers, num_simulations, num_cores,
                   max_weight, risk_free_rate, error, engine, metrics, loader>>

\* line 136
TrialSample ==
    /\ pc = "loop"
    /\ trial < Iterations(num_simulations)
    /\ sampled' \in TrialSamples[Len(combo)]
    /\ pc' = "project"
    /\ UNCHANGED <<previous, metrics, loader>>
    /\ UNCHANGED <<config, error, indices, combinations, task, results,
                   df_results, combo, trial, weights, best, history, overtaken>>

\* line 137
TrialProject ==
    /\ pc = "project"
    /\ weights' = TrialProjection[sampled, max_weight]
    /\ pc' = "evaluate"
    /\ UNCHANGED <<previous, metrics, loader>>
    /\ UNCHANGED <<config, error, indices, combinations, task, results,
                   df_results, combo, trial, sampled, best, history, overtaken>>

\* lines 140-158
TrialEvaluate ==
    /\ pc = "evaluate"
    /\ LET m == TrialMetrics[SelectColumns(returns, combo), weights,
                             risk_free_rate]
           t == [ok |-> TRUE, weights |-> weights,
                 sharpe_ratio |-> m.sharpe_ratio,
                 annualized_return |-> m.annualized_return,
                 annualized_volatility |-> m.annualized_volatility]
       IN  IF m.ok
           THEN /\ best' = UpdateBest(best, t, trial + 1)
                /\ history' = Append(history, t)
                /\ trial' = trial + 1
                /\ pc' = "loop"
                /\ error' = error
           ELSE /\ pc' = "failed"
                /\ error' = "ValueError"
                /\ UNCHANGED <<best, history, trial>>
    /\ UNCHANGED <<previous, metrics, loader>>
    /\ UNCHANGED <<config, indices, combinations, task, results,
                   df_results, combo, sampled, weights, overtaken>>

\* lines 161-169
TrialFinish ==
    /\ pc = "loop"
    /\ trial >= Iterations(num_simulations)
    /\ IF best.weights = <<>>
       THEN pc' = "failed" /\ error' = "AttributeError" /\ results' = results
       ELSE pc' = "done" /\ error' = error /\ results' = <<ResultOf(combo, best)>>
    /\ UNCHANGED <<previous, metrics, loader>>
    /\ UNCHANGED <<config, indices, combinations, task,
                   df_results, combo, trial, sampled, weights, best, history,
                   overtaken>>

TrialNext ==
    TrialSelect \/ TrialSample \/ TrialProject \/ TrialEvaluate \/ TrialFinish

SpecTrial == TrialInit /\ [][TrialNext]_vars

\* _simulate_one is sequential code: a step that can be taken is taken
SpecTrialFair == SpecTrial /\ WF_vars(TrialNext)

(***************************************************************************)
(* PortfolioSimulator.run.  Parallel(n_jobs=num_cores) starts the tasks in *)
(* the order of the list, at most num_cores at a time; they complete in    *)
(* any order; the list it returns is in the order of the input.  An        *)
(* exception in a task leaves run().                                       *)
(***************************************************************************)
\* pl.DataFrame(results)
DataFrameDropLast(res) == [i \in 1..(Len(res) - 1) |-> res[i][1]]

DataFrame(res) == [i \in 1..Len(res) |-> res[i][1]]

RemoveAt(rows, i) == [j \in 1..(Len(rows) - 1) |-> IF j < i THEN rows[j] ELSE rows[j + 1]]

PrecedesAscending(a, b) == RLe(a.sharpe_ratio, b.sharpe_ratio)

\* sort('sharpe_ratio', descending=True): row a may stand before row b
Precedes(a, b) == RLe(b.sharpe_ratio, a.sharpe_ratio)

\* every arrangement of the rows the sort may return (the order of rows
\* with equal keys is not fixed)
RECURSIVE SortRows(_)
SortRows(rows) ==
    IF rows = <<>> THEN {<<>>}
    ELSE LET heads == {i \in DOMAIN rows :
                          \A j \in DOMAIN rows : Precedes(rows[i], rows[j])}
         IN  UNION {{<<rows[i]>> \o rest : rest \in SortRows(RemoveAt(rows, i))} :
                      i \in heads}

Running == {i \in DOMAIN task : task[i] = "running"}

Init ==
    /\ \E n \in 0..MaxTickers :
          /\ tickers = Universe(n)
          /\ select_k_tickers \in (-1)..(n + 1)
    /\ num_simulations \in 0..RunSimulations
    /\ num_cores \in 1..MaxCores
    /\ max_weight = Rat(1, 2)
    /\ risk_free_rate = Zero
    /\ returns \in {ReturnsTable, MissingTable}
    /\ pc = "start"
    /\ error = "none"
    /\ indices = <<>> /\ combinations = <<>> /\ task = <<>>
    /\ results = <<>> /\ df_results = <<>> /\ overtaken = FALSE
    /\ combo = <<>> /\ trial = 0 /\ sampled = <<>> /\ weights = <<>>
    /\ best = <<>> /\ history = <<>>
    /\ previous = <<>> /\ NoMetrics /\ NoLoader

\* line 179
RunEnumerate ==
    /\ pc = "start"
    /\ IF select_k_tickers < 0
       THEN /\ pc' = "failed"
            /\ error' = "ValueError"
            /\ UNCHANGED <<combinations, task, results>>
       ELSE /\ combinations' = Combinations(tickers, select_k_tickers)
            /\ task' = [i \in DOMAIN combinations' |-> "pending"]
            /\ results' = [i \in DOMAIN combinations' |-> <<>>]
            /\ pc' = "parallel"
            /\ error' = error
    /\ UNCHANGED <<previous, metrics, loader>>
    /\ UNCHANGED <<config, indices, df_results, combo, trial, sampled,
                   weights, best, history, overtaken>>

\* lines 182-184: a worker takes the next subset of the list
RunDispatch(i) ==
    /\ pc = "parallel"
    /\ task[i] = "pending"
    /\ \A j \in 1..(i - 1) : task[j] # "pending"
    /\ Cardinality(Running) < num_cores
    /\ task' = [task EXCEPT ![i] = "running"]
    /\ UNCHANGED <<previous, metrics, loader>>
    /\ UNCHANGED <<config, pc, error, indices, combinations, results,
                   df_results, combo, trial, sampled, weights, best, history,
                   overtaken>>

RunCompleteIsolated(i) ==
    /\ pc = "parallel"
    /\ task[i] = "running"
    /\ \E draws \in [1..Iterations(num_simulations) ->
                        Dirichlet(Len(combinations[i]), RunGrid)] :
          LET r == SimulateOne(combinations[i], draws, max_weight,
                               risk_free_rate, returns)
          IN  IF r.error = "none"
              THEN /\ results' = [results EXCEPT ![i] = <<r.result>>]
                   /\ task' = [task EXCEPT ![i] = "done"]
                   /\ overtaken' = (overtaken \/ \E j \in 1..(i - 1) : task[j] = "running")
                   /\ UNCHANGED <<pc, error>>
              ELSE /\ results' = [results EXCEPT ![i] = <<NoResult>>]
                   /\ task' = [task EXCEPT ![i] = "done"]
                   /\ error' = r.error
                   /\ UNCHANGED <<pc, overtaken>>
    /\ UNCHANGED <<previous, metrics, loader>>
    /\ UNCHANGED <<config, indices, combinations, df_results, combo, trial,
                   sampled, weights, best, history>>

\* lines 182-184: a worker's _simulate_one(combo) returns or raises
RunComplete(i) ==
    /\ pc = "parallel"
    /\ task[i] = "running"
    /\ \E draws \in [1..Iterations(num_simulations) ->
                        Dirichlet(Len(combinations[i]), RunGrid)] :
          LET r == SimulateOne(combinations[i], draws, max_weight,
                               risk_free_rate, returns)
          IN  IF r.error = "none"
              THEN /\ results' = [results EXCEPT ![i] = <<r.result>>]
                   /\ task' = [task EXCEPT ![i] = "done"]
                   /\ overtaken' = (overtaken \/ \E j \in 1..(i - 1) : task[j] = "running")
                   /\ UNCHANGED <<pc, error>>
              ELSE /\ pc' = "failed"
                   /\ error' = r.error
                   /\ UNCHANGED <<results, task, overtaken>>
    /\ UNCHANGED <<previous, metrics, loader>>
    /\ UNCHANGED <<config, indices, combinations, df_results, combo, trial,
                   sampled, weights, best, history>>

RunSortEager ==
    /\ pc = "parallel"
    /\ \A i \in DOMAIN task : task[i] # "pending"
    /\ LET finished == SelectSeq(results, LAMBDA r : r # <<>>)
       IN  IF finished = <<>>
           THEN /\ pc' = "failed"
                /\ error' = "ColumnNotFoundError"
                /\ UNCHANGED df_results
           ELSE /\ df_results' \in SortRows(DataFrame(finished))
                /\ pc' = "done"
                /\ error' = error
    /\ UNCHANGED <<previous, metrics, loader>>
    /\ UNCHANGED <<config, indices, combinations, task, results, combo,
                   trial, sampled, weights, best, history, overtaken>>

\* lines 187-192; sorting a table without the column sharpe_ratio (no
\* rows at all) raises
RunSort ==
    /\ pc = "parallel"
    /\ \A i \in DOMAIN task : task[i] = "done"
    /\ IF results = <<>>
       THEN /\ pc' = "failed"
            /\ error' = "ColumnNotFoundError"
            /\ UNCHANGED df_results
       ELSE /\ df_results' \in SortRows(DataFrame(results))
            /\ pc' = "done"
            /\ error' = error
    /\ UNCHANGED <<previous, metrics, loader>>
    /\ UNCHANGED <<config, indices, combinations, task, results, combo,
                   trial, sampled, weights, best, history, overtaken>>

Next ==
    \/ RunEnumerate
    \/ \E i \in DOMAIN task : RunDispatch(i)
    \/ \E i \in DOMAIN task : RunComplete(i)
    \/ RunSort

Spec == Init /\ [][Next]_vars

(***************************************************************************)
(* SpecTwoRuns: run() executed twice on the same simulator, with more than *)
(* one worker.  Nothing in simulate.py takes a seed: _sample_weights draws *)
(* from the global generator of numpy of the process it runs in, and with  *)
(* n_jobs > 1 that is a worker process whose generator the caller cannot   *)
(* seed, so the draws of the second execution are again any draws.         *)
(***************************************************************************)
TwoRunsInit == Init /\ num_cores > 1

\* run() has returned; the caller keeps the table and calls run() again
RunAgain ==
    /\ pc = "done"
    /\ previous = <<>>
    /\ previous' = <<df_results>>
    /\ pc' = "start"
    /\ combinations' = <<>> /\ task' = <<>> /\ results' = <<>>
    /\ df_results' = <<>> /\ overtaken' = FALSE
    /\ UNCHANGED <<config, error, indices, combo, trial, sampled, weights,
                   best, history, metrics, loader>>

TwoRunsNext == Next \/ RunAgain

SpecTwoRuns == TwoRunsInit /\ [][TwoRunsNext]_vars

(***************************************************************************)
(* SpecProjector: one draw, sampled, projected and checked.                *)
(***************************************************************************)
Caps == {Rat(j, CapGrid) : j \in 1..(CapGrid + 1)}

Idle == /\ tickers = <<>> /\ select_k_tickers = 0 /\ num_simulations = 0
        /\ num_cores = 1 /\ risk_free_rate = Zero /\ returns = <<>>
        /\ indices = <<>> /\ combinations = <<>> /\ task = <<>>
        /\ results = <<>> /\ df_results = <<>> /\ combo = <<>>
        /\ trial = 0 /\ best = <<>> /\ history = <<>> /\ overtaken = FALSE
        /\ previous = <<>> /\ NoMetrics /\ NoLoader

ProjInit ==
    /\ Idle
    /\ max_weight \in Caps
    /\ pc = "sample"
    /\ error = "none"
    /\ sampled = <<>>
    /\ weights = <<>>

ProjSample ==
    /\ pc = "sample"
    /\ \E n \in 1..ProjAssets : \E draw \in Dirichlet(n, ProjGrid) :
          sampled' = SampleWeights(draw)
    /\ pc' = "project"
    /\ UNCHANGED <<previous, metrics, loader>>
    /\ UNCHANGED <<config, error, indices, combinations, task, results,
                   df_results, combo, trial, weights, best, history, overtaken>>

ProjApply ==
    /\ pc = "project"
    /\ weights' = ApplyMaxWeightConstraint(sampled, max_weight)
    /\ pc' = "returns"
    /\ UNCHANGED <<previous, metrics, loader>>
    /\ UNCHANGED <<config, error, indices, combinations, task, results,
                   df_results, combo, trial, sampled, best, history, overtaken>>

ProjCheck ==
    /\ pc = "returns"
    /\ IF WeightsSumToOne(weights)
       THEN pc' = "done" /\ error' = error
       ELSE pc' = "failed" /\ error' = "ValueError"
    /\ UNCHANGED <<previous, metrics, loader>>
    /\ UNCHANGED <<config, indices, combinations, task, results,
                   df_results, combo, trial, sampled, weights, best, history, overtaken>>

ProjNext == ProjSample \/ ProjApply \/ ProjCheck

SpecProjector == ProjInit /\ [][ProjNext]_vars

(***************************************************************************)
(* SpecReturns: PortfolioMetrics.compute_portfolio_returns applied to a    *)
(* frame of the columns combo and to a weight vector of the same length    *)
(* whose sum is anything: entries j / MetricGrid, the first one moved by a *)
(* nudge below or above the tolerance of np.isclose.                       *)
(***************************************************************************)
Nudges == {Zero, Rat(1, 200000), Rat(1, 50000)}

MetricWeights(n_assets) ==
    {[j \in 1..n_assets |-> IF j = 1 THEN RAdd(w[j], d) ELSE w[j]] :
        w \in [1..n_assets -> {Rat(j, MetricGrid) : j \in 0..(MetricGrid + 1)}],
        d \in Nudges}

ReturnsInit ==
    /\ tickers = Universe(MetricAssets)
    /\ select_k_tickers \in 1..MetricAssets
    /\ num_simulations = 0 /\ num_cores = 1 /\ max_weight = One
    /\ risk_free_rate = Zero
    /\ returns = ReturnsTable
    /\ combo \in Range(Combinations(tickers, select_k_tickers))
    /\ weights \in MetricWeights(Len(combo))
    /\ pc = "returns"
    /\ error = "none"
    /\ indices = <<>> /\ combinations = <<>> /\ task = <<>>
    /\ results = <<>> /\ df_results = <<>> /\ overtaken = FALSE
    /\ trial = 0 /\ sampled = <<>> /\ best = <<>> /\ history = <<>>
    /\ previous = <<>> /\ NoMetrics /\ NoLoader

\* utils.py lines 27-39
ReturnsCompute ==
    /\ pc = "returns"
    /\ IF WeightsSumToOne(weights)
       THEN /\ portfolio_returns' =
                  PortfolioReturns(weights, SelectColumns(returns, combo))
            /\ pc' = "done"
            /\ error' = error
       ELSE /\ pc' = "failed"
            /\ error' = "ValueError"
            /\ UNCHANGED portfolio_returns
    /\ UNCHANGED <<config, engine, sharpe, loader>>

ReturnsNext == ReturnsCompute

SpecReturns == ReturnsInit /\ [][ReturnsNext]_vars

(***************************************************************************)
(* SpecSharpe: PortfolioMetrics.compute_portfolio_sharpe_ratio applied to  *)
(* a series of at most MaxDates daily returns, each a whole percentage up  *)
(* to MaxReturn or a missing value.                                        *)
(***************************************************************************)
SeriesValues == {NaN} \cup {Rat(j, 1) : j \in 0..MaxReturn}

SeriesOf(len) == [1..len -> SeriesValues]

SharpeInit ==
    /\ tickers = <<>> /\ select_k_tickers = 0 /\ num_simulations = 0
    /\ num_cores = 1 /\ max_weight = One /\ returns = <<>>
    /\ risk_free_rate \in {Zero, One}
    /\ \E len \in 0..MaxDates : portfolio_returns \in SeriesOf(len)
    /\ sharpe = <<>>
    /\ pc = "sharpe"
    /\ error = "none"
    /\ indices = <<>> /\ combinations = <<>> /\ task = <<>>
    /\ results = <<>> /\ df_results = <<>> /\ overtaken = FALSE
    /\ combo = <<>> /\ trial = 0 /\ sampled = <<>> /\ weights = <<>>
    /\ best = <<>> /\ history = <<>>
    /\ previous = <<>> /\ NoLoader

\* utils.py lines 115-124
SharpeCompute ==
    /\ pc = "sharpe"
    /\ sharpe' = <<SharpeRatio(portfolio_returns, risk_free_rate)>>
    /\ pc' = "done"
    /\ UNCHANGED <<config, engine, error, portfolio_returns, loader>>

SharpeNext == SharpeCompute

SpecSharpe == SharpeInit /\ [][SharpeNext]_vars

(***************************************************************************)
(* SpecLoader: data retrieval, DataLoader.fetch_data                       *)
(* (src/procedural/src/data_loader.py) and fetch_dow30                     *)
(* (src/functional/utils/data_loading.py).  Both walk the tickers in       *)
(* batches of batch_size and call _download_batch on each; an attempt of   *)
(* yf.download returns the batch, raises YFRateLimitError or raises        *)
(* something else.  tickers is self.tickers, or the first MaxUniverse      *)
(* names of DOW_30 for fetch_dow30.                                        *)
(***************************************************************************)
\* _download_batch(..., max_retries=5)
MaxRetries == 5

\* self.tickers[i:i + batch_size]
Batch == SubSeq(tickers, batch_start + 1,
                IF batch_start + batch_size < Len(tickers)
                THEN batch_start + batch_size ELSE Len(tickers))

\* pd.concat(all_data, axis=1): the columns of the batches side by side
RECURSIVE Concat(_)
Concat(frames) ==
    IF frames = <<>> THEN <<>> ELSE Head(frames) \o Concat(Tail(frames))

LoaderInit ==
    /\ operation \in {"fetch_data", "fetch_dow30"}
    /\ \E n \in 0..MaxUniverse :
          /\ operation = "fetch_dow30" => n = MaxUniverse
          /\ tickers = Universe(n)
    /\ batch_size \in 1..MaxBatch
    /\ batch_start = 0 /\ attempt = 0 /\ all_data = <<>> /\ prices_df = <<>>
    /\ max_retries = MaxRetries /\ calls = 0 /\ waits = <<>>
    /\ pc = "download"
    /\ error = "none"
    /\ select_k_tickers = 0 /\ num_simulations = 0 /\ num_cores = 1
    /\ max_weight = One /\ risk_free_rate = Zero /\ returns = <<>>
    /\ indices = <<>> /\ combinations = <<>> /\ task = <<>>
    /\ results = <<>> /\ df_results = <<>> /\ overtaken = FALSE
    /\ combo = <<>> /\ trial = 0 /\ sampled = <<>> /\ weights = <<>>
    /\ best = <<>> /\ history = <<>>
    /\ previous = <<>> /\ NoMetrics

\* _download_batch has raised e: fetch_data prints and goes on with the
\* next batch (data_loader.py lines 82-84), fetch_dow30 has no handler
BatchRaised(e) ==
    IF operation = "fetch_data"
    THEN /\ batch_start' = batch_start + batch_size
         /\ attempt' = 0
         /\ UNCHANGED <<pc, error>>
    ELSE /\ pc' = "failed"
         /\ error' = e
         /\ UNCHANGED <<batch_start, attempt>>

\* yf.download returns: _download_batch returns df, the batch is appended
DownloadReturns ==
    /\ pc = "download"
    /\ batch_start < Len(tickers)
    /\ all_data' = Append(all_data, Batch)
    /\ batch_start' = batch_start + batch_size
    /\ attempt' = 0
    /\ UNCHANGED <<config, engine, metrics, pc, error, operation, batch_size,
                   prices_df, download>>

\* yf.download raises YFRateLimitError: sleep and try again, RuntimeError
\* after the last of max_retries attempts
DownloadRateLimited ==
    /\ pc = "download"
    /\ batch_start < Len(tickers)
    /\ IF attempt + 1 < MaxRetries
       THEN attempt' = attempt + 1 /\ UNCHANGED <<pc, error, batch_start>>
       ELSE BatchRaised("RuntimeError")
    /\ UNCHANGED <<config, engine, metrics, operation, batch_size, all_data,
                   prices_df, download>>

\* yf.download raises anything else: it leaves _download_batch at once
DownloadRaises ==
    /\ pc = "download"
    /\ batch_start < Len(tickers)
    /\ BatchRaised("ConnectionError")
    /\ UNCHANGED <<config, engine, metrics, operation, batch_size, all_data,
                   prices_df, download>>

\* after the last batch: the table of the Close columns (fetch_data raises
\* ValueError when no batch came back; pd.concat of no frame raises too)
Combine ==
    /\ pc = "download"
    /\ batch_start >= Len(tickers)
    /\ IF all_data = <<>>
       THEN pc' = "failed" /\ error' = "ValueError" /\ UNCHANGED prices_df
       ELSE pc' = "done" /\ error' = error /\ prices_df' = Concat(all_data)
    /\ UNCHANGED <<config, engine, metrics, operation, batch_size,
                   batch_start, attempt, all_data, download>>

LoaderNext ==
    DownloadReturns \/ DownloadRateLimited \/ DownloadRaises \/ Combine

SpecLoader == LoaderInit /\ [][LoaderNext]_vars

(***************************************************************************)
(* SpecDownload: one call of _download_batch(tickers, max_retries), the    *)
(* same loop in data_loader.py (lines 41-58) and data_loading.py (lines    *)
(* 32-49).  attempt is the loop variable of range(max_retries); every      *)
(* iteration calls yf.download once.  random.uniform(0, 1) is a point of   *)
(* a grid on [0, 1].                                                       *)
(***************************************************************************)
JitterGrid == 2

\* random.uniform(0, 1)
Jitters == {Rat(j, JitterGrid) : j \in 0..JitterGrid}

BackoffLinear(n, u) == RAdd(Rat(2 * n, 1), u)

\* wait = 2 ** attempt + random.uniform(0, 1)
Backoff(n, u) == RAdd(Rat(2 ^ n, 1), u)

DownloadInit ==
    /\ operation = "_download_batch"
    /\ \E n \in 1..MaxBatch : tickers = Universe(n)
    /\ max_retries \in 0..MaxRetries
    /\ attempt = 0 /\ calls = 0 /\ waits = <<>>
    /\ batch_size = 0 /\ batch_start = 0 /\ all_data = <<>> /\ prices_df = <<>>
    /\ pc = "attempt"
    /\ error = "none"
    /\ select_k_tickers = 0 /\ num_simulations = 0 /\ num_cores = 1
    /\ max_weight = One /\ risk_free_rate = Zero /\ returns = <<>>
    /\ indices = <<>> /\ combinations = <<>> /\ task = <<>>
    /\ results = <<>> /\ df_results = <<>> /\ overtaken = FALSE
    /\ combo = <<>> /\ trial = 0 /\ sampled = <<>> /\ weights = <<>>
    /\ best = <<>> /\ history = <<>>
    /\ previous = <<>> /\ NoMetrics

\* yf.download returns: return df
AttemptReturns ==
    /\ pc = "attempt"
    /\ attempt < max_retries
    /\ calls' = calls + 1
    /\ all_data' = <<tickers>>
    /\ pc' = "returned"
    /\ UNCHANGED <<config, engine, metrics, error, operation, batch_size,
                   batch_start, attempt, prices_df, max_retries, waits>>

\* yf.download raises YFRateLimitError: sleep, then the next iteration
AttemptRateLimited ==
    /\ pc = "attempt"
    /\ attempt < max_retries
    /\ calls' = calls + 1
    /\ \E u \in Jitters : waits' = Append(waits, Backoff(attempt, u))
    /\ attempt' = attempt + 1
    /\ UNCHANGED <<config, engine, metrics, pc, error, operation, batch_size,
                   batch_start, all_data, prices_df, max_retries>>

\* yf.download raises anything else: no handler, it leaves the function
AttemptRaises ==
    /\ pc = "attempt"
    /\ attempt < max_retries
    /\ calls' = calls + 1
    /\ pc' = "failed"
    /\ error' = "ConnectionError"
    /\ UNCHANGED <<config, engine, metrics, operation, batch_size,
                   batch_start, attempt, all_data, prices_df, max_retries,
                   waits>>

\* range(max_retries) is used up: raise RuntimeError
RetriesExhausted ==
    /\ pc = "attempt"
    /\ attempt >= max_retries
    /\ pc' = "failed"
    /\ error' = "RuntimeError"
    /\ UNCHANGED <<config, engine, metrics, operation, batch_size,
                   batch_start, attempt, all_data, prices_df, download>>

DownloadNext ==
    AttemptReturns \/ AttemptRateLimited \/ AttemptRaises \/ RetriesExhausted

SpecDownload == DownloadInit /\ [][DownloadNext]_vars

\* yf.download and time.sleep come back, so the loop goes on while it can
SpecDownloadFair == SpecDownload /\ WF_vars(DownloadNext)

(***************************************************************************)
(* Properties of the projector (SpecProjector).                            *)
(***************************************************************************)
Projected == pc \in {"returns", "done", "failed"}

\* x <= y + 1e-6
WithinTolerance(x, y) ==
    LET d == RSub(x, y)
    IN  d[1] <= d[2] \div 1000000

SomeExcess == \E i \in DOMAIN sampled : RLt(max_weight, sampled[i])
SomeBelow == \E i \in DOMAIN sampled : ~RLt(max_weight, sampled[i])

\* C4: with max_weight < 1, every element of the projected vector is at
\* most max_weight (within 1e-6).  The claim is stated here for the caps
\* that some vector of that length can respect (k * max_weight >= 1) and
\* for inputs with no zero entry; it is wider and fails with this part.
C4_CapRespected ==
    (/\ Projected
     /\ RLt(max_weight, One)
     /\ \A i \in DOMAIN sampled : RLt(Zero, sampled[i])
     /\ RLe(One, RMul(Rat(Len(sampled), 1), max_weight))) =>
        \A i \in DOMAIN weights : WithinTolerance(weights[i], max_weight)

\* C5: for max_weight in (0, 1], a sampled and projected vector has
\* non-negative entries that sum to 1 within the tolerance of the sum check
\* of compute_portfolio_returns, which therefore never raises.
C5_OnSimplex ==
    (Projected /\ RLt(Zero, max_weight) /\ RLe(max_weight, One)) =>
        /\ \A i \in DOMAIN weights : RLe(Zero, weights[i])
        /\ WeightsSumToOne(weights)
        /\ error = "none"
        /\ pc # "failed"

C5_Witness ==
    /\ pc = "done"
    /\ RLt(max_weight, One)
    /\ SomeExcess
    /\ SomeBelow
    /\ weights # sampled

\* C6: the projector returns its input when max_weight >= 1, and when
\* max_weight < 1 and no element of the input exceeds max_weight.
C6_Identity ==
    (Projected /\ (RLe(One, max_weight) \/ ~SomeExcess)) => weights = sampled

C6_Witness ==
    /\ pc = "done"
    /\ RLt(max_weight, One)
    /\ ~SomeExcess
    /\ Len(sampled) = 3
    /\ weights = sampled

(***************************************************************************)
(* Properties of the enumeration (SpecCombinations).                       *)
(***************************************************************************)
RECURSIVE Binomial(_, _)
Binomial(n, k) ==
    IF k = 0 \/ k = n THEN 1
    ELSE Binomial(n - 1, k - 1) + Binomial(n - 1, k)

PositionOf(t) == CHOOSE i \in DOMAIN tickers : tickers[i] = t

PositionsOf(c) == [j \in DOMAIN c |-> PositionOf(c[j])]

\* a before b in the lexicographic order of two position lists of one length
LexLess(a, b) ==
    \E i \in DOMAIN a :
        /\ a[i] < b[i]
        /\ \A j \in 1..(i - 1) : a[j] = b[j]

ValidK == 1 <= select_k_tickers /\ select_k_tickers <= Len(tickers)

\* C7: for 1 <= k <= n the enumeration yields exactly C(n,k) subsets,
\* pairwise distinct, each of exactly k tickers of the universe, none
\* repeated inside a subset.
C7_AllSubsets ==
    (pc = "done" /\ ValidK) =>
        /\ Len(combinations) = Binomial(Len(tickers), select_k_tickers)
        /\ \A i, j \in DOMAIN combinations :
              i # j => Range(combinations[i]) # Range(combinations[j])
        /\ \A i \in DOMAIN combinations :
              /\ Len(combinations[i]) = select_k_tickers
              /\ Range(combinations[i]) \subseteq Range(tickers)
              /\ Cardinality(Range(combinations[i])) = select_k_tickers

C7_Witness ==
    /\ pc = "done"
    /\ Len(tickers) = 4
    /\ select_k_tickers = 2
    /\ Len(combinations) = 6

\* C8: every subset lists its tickers in the relative order of the
\* universe, and the subsets come in lexicographic order of their positions
\* in the universe.
C8_Ordered ==
    /\ \A i \in DOMAIN combinations :
          \A a, b \in DOMAIN combinations[i] :
              a < b => PositionOf(combinations[i][a]) < PositionOf(combinations[i][b])
    /\ \A i \in DOMAIN combinations :
          i > 1 => LexLess(PositionsOf(combinations[i - 1]),
                           PositionsOf(combinations[i]))

C8_Witness ==
    /\ pc = "done"
    /\ Len(tickers) = 5
    /\ select_k_tickers = 3
    /\ Len(combinations) = 10
    /\ combinations[1] = <<"MSFT", "AAPL", "NVDA">>
    /\ combinations[10] = <<"NVDA", "AMZN", "WMT">>

\* C9: when select_k_tickers is greater than the number of tickers or less
\* than 1, the enumeration fails with an error: it neither ends normally nor
\* yields a subset.
C9_InvalidKFails ==
    ~ValidK => (pc # "done" /\ combinations = <<>>)

(***************************************************************************)
(* Properties of the trial loop (SpecTrial).                               *)
(***************************************************************************)
SetMin(S) == CHOOSE x \in S : \A y \in S : x <= y

\* the trials of h whose Sharpe ratio no other trial of h exceeds
Attaining(h) ==
    {i \in DOMAIN h :
        \A j \in DOMAIN h : ~RLt(h[i].sharpe_ratio, h[j].sharpe_ratio)}

\* C3: the stored best is the earliest trial that attains the maximum
\* Sharpe ratio of the trials so far (a later trial with an equal Sharpe
\* ratio never replaces it), and it is the trial _simulate_one returns.
\* A maximum is there when the Sharpe ratios are numbers: NaN compares with
\* nothing.
C3_EarliestMaximum ==
    (history # <<>> /\ \A j \in DOMAIN history : history[j].sharpe_ratio # NaN) =>
        LET m == SetMin(Attaining(history))
        IN  /\ best.trial = m
            /\ best.sharpe_ratio = history[m].sharpe_ratio
            /\ best.weights = <<history[m].weights>>
            /\ pc = "done" =>
                  /\ results[1].sharpe_ratio = history[m].sharpe_ratio
                  /\ results[1].weights = history[m].weights

C3_Witness ==
    /\ pc = "done"
    /\ Len(history) = 2
    /\ history[1].sharpe_ratio = history[2].sharpe_ratio
    /\ history[1].weights # history[2].weights
    /\ results[1].weights = history[1].weights

(***************************************************************************)
(* Properties of run() (Spec).                                             *)
(***************************************************************************)
KSubsets == {S \in SUBSET Range(tickers) : Cardinality(S) = select_k_tickers}

\* C1: for 1 <= k <= n and every order of completion of the workers, the
\* table run() returns has exactly one row per k-subset of the universe,
\* C(n,k) rows in all: none missing, duplicated, truncated or filtered out.
C1_OneRowPerSubset ==
    (pc = "done" /\ ValidK) =>
        /\ Len(df_results) = Binomial(Len(tickers), select_k_tickers)
        /\ {Range(df_results[i].tickers) : i \in DOMAIN df_results} = KSubsets
        /\ Cardinality(KSubsets) = Len(df_results)

C1_Witness ==
    /\ pc = "done"
    /\ Len(tickers) = 2
    /\ select_k_tickers = 1
    /\ Len(df_results) = 2
    /\ overtaken

\* C2: the table run() returns is sorted by sharpe_ratio in descending
\* order: each row's sharpe_ratio is >= that of the row after it.
C2_SortedDescending ==
    pc = "done" =>
        \A i \in 1..(Len(df_results) - 1) :
            RLe(df_results[i + 1].sharpe_ratio, df_results[i].sharpe_ratio)

C2_Witness ==
    /\ pc = "done"
    /\ Len(df_results) = 2
    /\ RLt(df_results[2].sharpe_ratio, df_results[1].sharpe_ratio)
    /\ df_results[1] = results[2][1]

\* C10: when num_simulations <= 0 or the universe is empty, run() fails
\* before any subset is dispatched to a worker: no task ever leaves the
\* pending state and run() returns no table.
C10_FailsBeforeDispatch ==
    (num_simulations <= 0 \/ tickers = <<>>) =>
        /\ \A i \in DOMAIN task : task[i] = "pending"
        /\ pc # "done"

\* C11: when the evaluation of one subset raises in a worker, run() as a
\* whole has failed with that exception and returns no table, whatever
\* other subsets completed before.
C11_FailureAborts ==
    error # "none" => (pc = "failed" /\ df_results = <<>>)

C11_Witness ==
    /\ pc = "failed"
    /\ error = "AttributeError"
    /\ \E i \in DOMAIN results : results[i] # <<>>
    /\ df_results = <<>>

(***************************************************************************)
(* Properties of the metrics (SpecSharpe, SpecReturns).                    *)
(***************************************************************************)
IsFinite(x) == x[2] # 0

\* C12: compute_portfolio_sharpe_ratio returns exactly 0 whenever the
\* standard deviation of the series is 0, and for every input series its
\* result is a finite number, never NaN or infinite.
C12_SharpeFinite ==
    pc = "done" =>
        /\ Variance(portfolio_returns) = Zero => sharpe[1] = Zero
        /\ IsFinite(sharpe[1])

\* |s - 1| > 1e-8 + 1e-5
FarFromOne(s) ==
    LET d == RAbs(RSub(s, One))
    IN  d[1] > (1001 * d[2]) \div 100000000

\* C13: compute_portfolio_returns raises ValueError and computes no series
\* whenever the sum of the weights is farther than the tolerance from 1,
\* and raises nothing when the sum is within the tolerance.
C13_SumValidated ==
    pc \in {"done", "failed"} =>
        IF FarFromOne(RSum(weights))
        THEN pc = "failed" /\ error = "ValueError" /\ portfolio_returns = <<>>
        ELSE pc = "done" /\ error = "none" /\ portfolio_returns # <<>>

C13_Witness ==
    /\ pc = "failed"
    /\ error = "ValueError"
    /\ weights = <<Rat(25001, 50000), Rat(1, 2)>>

\* sum over the first j assets of returns[date t][asset] * weights[asset]
RECURSIVE WeightedSum(_, _)
WeightedSum(t, j) ==
    IF j = 0 THEN Zero
    ELSE RAdd(WeightedSum(t, j - 1), RMul(returns[combo[j]][t], weights[j]))

Fixture == /\ combo = <<"MSFT", "AAPL">>
           /\ returns["MSFT"] = Percent(<<1, 2, 0>>)
           /\ returns["AAPL"] = Percent(<<2, 1, 3>>)
           /\ weights = <<Rat(1, 2), Rat(1, 2)>>

\* C14: for weights that sum to 1 (within the tolerance) the series has one
\* value per date, the value of date t being the sum over the assets j of
\* returns[t][j] * weights[j]; for the fixture of 2 assets and 3 dates with
\* weights (1/2, 1/2) every value is 1.5 percent.
C14_RowWiseDot ==
    pc = "done" =>
        /\ Len(portfolio_returns) = Len(returns[combo[1]])
        /\ \A t \in DOMAIN portfolio_returns :
              portfolio_returns[t] = WeightedSum(t, Len(combo))
        /\ Fixture => portfolio_returns = <<Rat(3, 2), Rat(3, 2), Rat(3, 2)>>

C14_Witness ==
    /\ pc = "done"
    /\ Fixture
    /\ portfolio_returns = <<Rat(3, 2), Rat(3, 2), Rat(3, 2)>>

C16_ConfigUnchanged == [][config' = config]_vars

C16_Witness ==
    /\ pc = "done"
    /\ trial = MaxSimulations
    /\ results # <<>>
    /\ returns = ReturnsTable
    /\ DOMAIN returns # Range(combo)

(***************************************************************************)
(* Properties of the projector (SpecProjector), continued.                 *)
(***************************************************************************)
AllOver == \A i \in DOMAIN sampled : RLt(max_weight, sampled[i])

\* C18: with max_weight < 1 and every element of the input above
\* max_weight, the projector returns the equal-weight vector: each of the k
\* elements is 1/k and the vector sums to 1.
C18_EqualWeights ==
    (Projected /\ RLt(max_weight, One) /\ AllOver) =>
        /\ Len(weights) = Len(sampled)
        /\ \A i \in DOMAIN weights : weights[i] = Rat(1, Len(sampled))
        /\ RSum(weights) = One

C18_Witness ==
    /\ Projected
    /\ RLt(max_weight, One)
    /\ Len(sampled) = 3
    /\ AllOver
    /\ weights = <<Rat(1, 3), Rat(1, 3), Rat(1, 3)>>

\* the input restricted to the elements over the cap (or to the others)
Part(over) ==
    [i \in DOMAIN sampled |->
        IF RLt(max_weight, sampled[i]) = over THEN sampled[i] ELSE Zero]

TotalExcess ==
    RSub(RSum(Part(TRUE)),
         RMul(max_weight,
              Rat(Cardinality({i \in DOMAIN sampled :
                                  RLt(max_weight, sampled[i])}), 1)))

\* C19: with max_weight = c < 1 and an input with elements above c and
\* elements at or below c, every element above c comes out as exactly c and
\* every other element w_i comes out as
\* w_i + total_excess * w_i / (sum of the elements at or below c).
C19_ClampAndRedistribute ==
    (Projected /\ RLt(max_weight, One) /\ SomeExcess /\ SomeBelow) =>
        \A i \in DOMAIN sampled :
            weights[i] =
                IF RLt(max_weight, sampled[i]) THEN max_weight
                ELSE RAdd(sampled[i],
                          RDiv(RMul(TotalExcess, sampled[i]), RSum(Part(FALSE))))

(***************************************************************************)
(* Properties of data retrieval (SpecLoader).                              *)
(***************************************************************************)
\* C17: when the download of a batch fails for good (retries exhausted or
\* another exception), fetch_data and fetch_dow30 report the failure: they
\* never return a table that lacks the tickers of a batch, so a table that
\* is returned has a column for every ticker.
C17_FailureReported ==
    pc = "done" => prices_df = tickers

TrialEnded == pc \in {"done", "failed"}

\* the loop never runs more than num_simulations times; an evaluation that
\* got through its loop ran it exactly num_simulations times; what is kept
\* of the trials is one candidate at most, a trial no other trial beats
TrialBounded ==
    /\ trial <= Iterations(num_simulations)
    /\ Len(history) = trial
    /\ pc = "done" => trial = num_simulations
    /\ (TrialEnded /\ error # "ValueError") => trial = Iterations(num_simulations)
    /\ Len(best.weights) <= 1
    /\ best.weights # <<>> =>
          /\ best.trial \in DOMAIN history
          /\ best.weights[1] = history[best.trial].weights
          /\ \A j \in DOMAIN history :
                ~RLt(best.sharpe_ratio, history[j].sharpe_ratio)

\* C20: every evaluation of a subset by _simulate_one comes to an end, after
\* exactly num_simulations trials when it gets through its loop and never
\* after more, and at every point it holds the data of at most one
\* candidate best trial, which no trial evaluated so far beats.
C20_BoundedLoop == []TrialBounded /\ <>TrialEnded

C20_Witness ==
    /\ pc = "done"
    /\ num_simulations = MaxSimulations
    /\ trial = MaxSimulations
    /\ best.trial = MaxSimulations
    /\ best.weights = <<history[MaxSimulations].weights>>
    /\ history[1].weights # history[MaxSimulations].weights

(***************************************************************************)
(* Order of the stages of run() (Spec).                                    *)
(***************************************************************************)
Ranked == pc = "done" \/ df_results # <<>> \/ error = "ColumnNotFoundError"

Dispatched == \E i \in DOMAIN task : task[i] # "pending"

\* C21: the ranking step of run() has run only in states where every
\* subset's task is done, none pending or running; and as soon as one task
\* has been dispatched the list of subsets is the whole enumeration, with
\* one task per subset.
C21_SortAfterAll ==
    /\ Ranked => \A i \in DOMAIN task : task[i] = "done"
    /\ Dispatched =>
          /\ combinations = Combinations(tickers, select_k_tickers)
          /\ DOMAIN task = DOMAIN combinations

C21_Witness ==
    /\ Ranked
    /\ num_cores = 2
    /\ Len(task) = 2
    /\ \A i \in DOMAIN task : task[i] = "done"
    /\ Len(df_results) = 2
    /\ returns = ReturnsTable

(***************************************************************************)
(* Properties of _download_batch (SpecDownloadFair).                       *)
(***************************************************************************)
DownloadEnded == pc \in {"returned", "failed"}

\* at most max_retries calls of yf.download; every call but the one that
\* ended the function was rate-limited and followed by one sleep; the
\* sleep after the attempt numbered n (from 0) lasted between 2^n and
\* 2^n + 1 seconds; RuntimeError exactly when all max_retries attempts
\* were rate-limited
DownloadBounded ==
    /\ calls <= max_retries
    /\ \A i \in DOMAIN waits :
          /\ RLe(Rat(2 ^ (i - 1), 1), waits[i])
          /\ RLe(waits[i], Rat(2 ^ (i - 1) + 1, 1))
    /\ pc = "attempt" => (Len(waits) = calls /\ attempt = calls)
    /\ pc = "returned" =>
          (error = "none" /\ all_data = <<tickers>> /\ Len(waits) = calls - 1)
    /\ error = "ConnectionError" => (pc = "failed" /\ Len(waits) = calls - 1)
    /\ error = "RuntimeError" =>
          (pc = "failed" /\ calls = max_retries /\ Len(waits) = max_retries)
    /\ pc = "failed" => error \in {"ConnectionError", "RuntimeError"}

\* C22: _download_batch calls yf.download at most max_retries times,
\* returns the data of the first call that succeeds and makes no call
\* after it, goes on to another call only after a rate-limit error (any
\* other exception leaves it at once), sleeps between 2^attempt and
\* 2^attempt + 1 seconds after a rate-limited attempt, raises RuntimeError
\* once max_retries attempts in a row were rate-limited, and always comes
\* to an end.
C22_BoundedRetries ==
    /\ []DownloadBounded
    /\ [][DownloadEnded => calls' = calls]_vars
    /\ <>DownloadEnded

C22_Witness ==
    /\ pc = "returned"
    /\ max_retries = MaxRetries
    /\ calls = MaxRetries
    /\ Len(waits) = MaxRetries - 1
    /\ waits[1] = One
    /\ waits[MaxRetries - 1] = Rat(17, 2)

(***************************************************************************)
(* The result of _simulate_one (SpecTrial).                                *)
(***************************************************************************)
\* the record b holds the four values of the trial t
HoldsTrial(b, t) ==
    /\ b.sharpe_ratio = t.sharpe_ratio
    /\ b.weights = <<t.weights>>
    /\ b.annualized_return = t.annualized_return
    /\ b.annualized_volatility = t.annualized_volatility

\* C23: the stored best_sharpe, best_weights, best_annualized_return and
\* best_annualized_volatility are at every point the four values of one
\* trial evaluated so far (or all four are the initial values, when no
\* trial has been stored), the result dictionary is made of the four
\* values of that trial, and its tickers are the subset passed in, in the
\* same order.
C23_OneTrial ==
    /\ best.trial = 0 => best = InitialBest
    /\ best.trial # 0 =>
          /\ best.trial \in DOMAIN history
          /\ HoldsTrial(best, history[best.trial])
    /\ pc = "done" =>
          /\ best.trial \in DOMAIN history
          /\ results[1].tickers = combo
          /\ results[1].sharpe_ratio = history[best.trial].sharpe_ratio
          /\ results[1].weights = history[best.trial].weights
          /\ results[1].annualized_return = history[best.trial].annualized_return
          /\ results[1].annualized_volatility =
                history[best.trial].annualized_volatility

C23_Witness ==
    /\ pc = "done"
    /\ combo = <<"MSFT", "NVDA">>
    /\ results[1].tickers = <<"MSFT", "NVDA">>
    /\ Len(history) = 2
    /\ best.trial = 2
    /\ history[1].weights # history[2].weights
    /\ history[1].annualized_return # history[2].annualized_return
    /\ history[1].annualized_volatility # history[2].annualized_volatility
    /\ results[1].annualized_return = history[2].annualized_return

\* C24: whenever num_simulations >= 1, the first trial of _simulate_one
\* becomes the stored best, so that once a trial has been evaluated
\* best_weights is set, and the loop never ends with the initial
\* placeholders (best_weights None, which fails at best_weights.tolist()).
C24_FirstTrialStored ==
    num_simulations >= 1 =>
        /\ history # <<>> => (best.trial # 0 /\ best.weights # <<>>)
        /\ error # "AttributeError"

====
